---- MODULE Spec2Model ----
(***************************************************************************)
(* Model of apps/src/lib/node/ledger/tendermint_node.rs: the supervisor    *)
(* `run` of the CometBFT child process, the document patches it performs   *)
(* before the spawn, the administrative operations `reset` and `rollback`, *)
(* and `write_validator_key`.                                              *)
(*                                                                         *)
(* `run` is an async fn: one action of the model is the code that runs     *)
(* between two await points, named after the awaited operation whose       *)
(* result it consumes.  Results of operating-system calls (io::Result) are *)
(* inputs of the actions, drawn with \E.                                   *)
(***************************************************************************)
EXTENDS Integers, Sequences, FiniteSets, TLC

VARIABLES
    op,             \* the operation the host invoked
    pc,             \* position of the invoked operation
    env,            \* the process environment: COMETBFT and NAMADA_CMT_STDOUT
    args,           \* arguments of run: chain_id, genesis_time, config.cometbft
    tendermint_path,\* local of run/rollback: the resolved engine binary
    file_contents,  \* local of write_tm_genesis: what it read from the file
    genesis,        \* local of write_tm_genesis: the deserialized document
    genesisFile,    \* <home>/config/genesis.json
    configFile,     \* <home>/config/config.toml
    keyFile,        \* <home>/config/priv_validator_key.json
    child,          \* the spawned `start` process and its handle's options
    abortCh,        \* abort_recv's channel: what the sender side has done
    replyRx,        \* the requester's receiving end of the reply path
    branch,         \* which branch of select! resolved the race
    result,         \* what the operation returned (or how it ended)
    fault,          \* the failed system call, if one failed
    log,            \* effects of the operation, in the order they happened
    stdout          \* rollback: the captured output of the engine and the
                    \* message arguments the engine printed

vars == <<op, pc, env, args, tendermint_path, file_contents, genesis,
          genesisFile, configFile, keyFile, child, abortCh, replyRx, branch,
          result, fault, log, stdout>>

-----------------------------------------------------------------------------
(* Environment and error type                                              *)

\* pub const ENV_VAR_TM_STDOUT
ENV_VAR_TM_STDOUT == "NAMADA_CMT_STDOUT"

\* std::env::var results for COMETBFT
CometEnvValues ==
    { <<"NotPresent">>, <<"Ok", "/opt/cometbft">>, <<"NotUnicode", "0xFF">> }

\* values of NAMADA_CMT_STDOUT; the second component is the value after
\* to_ascii_lowercase().trim()
StdoutEnvValues ==
    { <<"NotPresent">>, <<"Ok", " TRUE ", "true">>, <<"Ok", "1", "1">> }

Ok(v) == <<"Ok", v>>
Err(kind, payload) == <<"Err", kind, payload>>
Panic(msg) == <<"panic", msg>>
Dropped == <<"dropped">>
NoResult == <<"none">>
Unit == <<>>

IsOk(r) == r[1] = "Ok"
IsErr(r, kind) == r[1] = "Err" /\ r[2] = kind

\* from_env_or_default that falls back to the default on any VarError
from_env_or_default_Lenient(v) ==
    IF v[1] = "Ok" THEN Ok(v[2]) ELSE Ok("cometbft")

\* fn from_env_or_default() -> Result<String>
from_env_or_default(v) ==
    CASE v[1] = "Ok"         -> Ok(v[2])
      [] v[1] = "NotPresent" -> Ok("cometbft")
      [] OTHER               -> Err("TendermintPath", v[2])

\* let log_stdout = match env::var(ENV_VAR_TM_STDOUT) { ... }
log_stdout(v) == IF v[1] = "Ok" THEN v[3] = "true" ELSE FALSE

-----------------------------------------------------------------------------
(* Documents                                                               *)

\* crate::cli::namada_version()
namada_version == "v0.31.0"

\* config.cometbft as the caller of run passes it in
HostConfigs ==
    { [moniker |-> m, create_empty_blocks |-> FALSE,
       mempool |-> [size |-> s, max_tx_bytes |-> 2048,
                    max_txs_bytes |-> 1073741824,
                    keep_invalid_txs_in_cache |-> TRUE],
       rpc |-> [max_body_bytes |-> 1000000],
       other |-> "host"] : m \in {"technodrome"}, s \in {5000, 4000} }

\* config.toml as `cometbft init` leaves it on disk
EngineConfig ==
    [moniker |-> "localhost", create_empty_blocks |-> TRUE,
     mempool |-> [size |-> 5000, max_tx_bytes |-> 1048576,
                  max_txs_bytes |-> 1073741824,
                  keep_invalid_txs_in_cache |-> FALSE],
     rpc |-> [max_body_bytes |-> 1000000],
     other |-> "engine"]

\* genesis.json as `cometbft init` leaves it on disk
EngineGenesisDocs ==
    { [chain_id |-> "test-chain-a1b2c3", genesis_time |-> "2023-01-01T00:00:00Z",
       block |-> [max_bytes |-> 22020096, max_gas |-> g, time_iota_ms |-> 1000],
       app_state |-> "absent", other |-> "engine"] : g \in {-1, 1000} }

ChainIds == { "namada-test.81060e31e0aa" }

\* DateTimeUtc values; the last is outside the range of the engine's Time
GenesisTimes == { "2024-01-01T00:00:00Z", "+10000-01-01T00:00:00Z" }

\* genesis_time.try_into(): the engine's Time covers years 1 to 9999
TimeConvertible(t) == t # "+10000-01-01T00:00:00Z"

\* block::Size::default_time_iota_ms()
default_time_iota_ms == 1000

File(doc) == <<"doc", doc>>
Truncated == <<"empty">>
Partial == <<"partial">>
Absent == <<"absent">>

\* a patch that builds a new document and takes nothing from the one read
PatchGenesis_Rebuilt(g, chain_id, genesis_time) ==
    [chain_id |-> chain_id, genesis_time |-> genesis_time,
     block |-> [max_bytes |-> 16 * 1024 * 1024, max_gas |-> -1,
                time_iota_ms |-> default_time_iota_ms],
     app_state |-> "", other |-> "default"]

\* the in-memory part of write_tm_genesis: the fields it overwrites
PatchGenesis(g, chain_id, genesis_time) ==
    [g EXCEPT !.chain_id = chain_id,
              !.genesis_time = genesis_time,
              !.block = [max_bytes |-> 16 * 1024 * 1024,
                         max_gas |-> -1,
                         time_iota_ms |-> default_time_iota_ms]]

\* a patch that leaves the mempool and rpc limits as they were passed in
PatchConfig_KeepLimits(config) ==
    [config EXCEPT
        !.moniker = config.moniker \o "-" \o namada_version,
        !.create_empty_blocks = TRUE]

\* the in-memory part of update_tendermint_config
PatchConfig(config) ==
    [config EXCEPT
        !.moniker = config.moniker \o "-" \o namada_version,
        !.create_empty_blocks = TRUE,
        !.mempool = [keep_invalid_txs_in_cache |-> FALSE,
                     max_tx_bytes |-> 1024 * 1024,
                     max_txs_bytes |-> 50 * 6 * 1024 * 1024,
                     size |-> 4000],
        !.rpc = [max_body_bytes |-> 2000000]]

-----------------------------------------------------------------------------
(* The child process                                                       *)

NoChild == [state |-> "none", status |-> <<>>, kill_on_drop |-> FALSE,
            stdout_null |-> FALSE, reaped |-> FALSE]

ExitStatuses == { <<"exit", 0>>, <<"exit", 1>>, <<"signal", 9>> }

\* success() that only asks whether the process exited by itself
success_AnyExit(status) == status[1] = "exit"

\* success() that is true of every status
success_Always(status) == TRUE

\* ExitStatus::success()
success(status) == status = <<"exit", 0>>

\* ExitStatus's Display
StatusToString(status) ==
    IF status[1] = "exit" THEN "exit status: " \o ToString(status[2])
    ELSE "signal: " \o ToString(status[2])

\* io::Error's Display
IoErrorToString(e) == "io error: " \o e

\* the spawn without kill_on_drop(true)
KillOnDrop_Unset == FALSE

\* Command::kill_on_drop's flag as run sets it
KillOnDrop == TRUE

\* Child's destructor: with kill_on_drop a process still running is killed
DropChild(c) ==
    IF c.state = "running" /\ c.kill_on_drop
    THEN [c EXCEPT !.state = "killed"]
    ELSE c

\* Child::start_kill on a process this task has not reaped
StartKill(c) ==
    IF c.state = "running" THEN [c EXCEPT !.state = "killed"] ELSE c

Append2(s, e1, e2) == Append(Append(s, e1), e2)

\* how run ends: the value it returns, or the panic it unwinds with; either
\* way its locals, the child handle among them, are dropped
Finish(r, f, c, l) ==
    /\ pc' = "done"
    /\ result' = r
    /\ fault' = f
    /\ child' = DropChild(c)
    /\ log' = l

\* <home>/config before the operation: a home never used, or the home a
\* previous run of the node left
Homes ==
    { <<Absent, Absent>>,
      <<File(PatchGenesis(CHOOSE g \in EngineGenesisDocs : g.block.max_gas = -1,
                          "namada-test.81060e31e0aa", "2023-06-01T00:00:00Z")),
        File(PatchConfig(CHOOSE c \in HostConfigs : c.mempool.size = 5000))>> }

-----------------------------------------------------------------------------
Init ==
    /\ op = "none"
    /\ pc = "idle"
    /\ env \in [COMETBFT : CometEnvValues, NAMADA_CMT_STDOUT : StdoutEnvValues]
    /\ args = <<>>
    /\ tendermint_path = ""
    /\ file_contents = <<>>
    /\ genesis = <<>>
    /\ \E home \in Homes : genesisFile = home[1] /\ configFile = home[2]
    /\ keyFile = Absent
    /\ child = NoChild
    /\ abortCh = "open"
    /\ replyRx = "none"
    /\ branch = "none"
    /\ result = NoResult
    /\ fault = "none"
    /\ log = <<>>
    /\ stdout = <<>>

IoResults == { "ok", "err" }

-----------------------------------------------------------------------------
(* run: lines 71-153                                                       *)

\* run is called: from_env_or_default()?, then the init command is started
RunStart ==
    /\ pc = "idle"
    /\ op' = "run"
    /\ \E c \in ChainIds, t \in GenesisTimes, cfg \in HostConfigs :
          args' = [chain_id |-> c, genesis_time |-> t, config |-> cfg]
    /\ LET p == from_env_or_default(env.COMETBFT) IN
       IF IsOk(p)
       THEN /\ tendermint_path' = p[2]
            /\ pc' = "init"
            /\ UNCHANGED <<result, fault, child, log>>
       ELSE /\ Finish(p, "env", child, log)
            /\ UNCHANGED tendermint_path
    /\ UNCHANGED <<env, file_contents, keyFile, genesis, genesisFile,
                   configFile, abortCh, replyRx, branch, stdout>>

\* `cometbft init` writes a document where it finds none and keeps the
\* file it finds
InitFile(file, doc) == IF file = Absent THEN File(doc) ELSE file

\* what the init subcommand did: it exited with status 0, or it did not
InitEvent(status) == IF status = <<"exit", 0>> THEN "init" ELSE "init_failed"

\* InitOutput without the call of write_tm_genesis
InitOutput_SkipGenesis ==
    /\ pc = "init"
    /\ \E io \in IoResults, status \in ExitStatuses, g \in EngineGenesisDocs :
          IF io = "err"
          THEN /\ Finish(Err("Init", "io"), "init_io", child, log)
               /\ UNCHANGED <<genesisFile, configFile>>
          ELSE IF ~success(status)
          THEN /\ Finish(Panic("Tendermint failed to initialize"),
                         "init_status", child, Append(log, InitEvent(status)))
               /\ UNCHANGED <<genesisFile, configFile>>
          ELSE /\ genesisFile' = InitFile(genesisFile, g)
               /\ configFile' = InitFile(configFile, EngineConfig)
               /\ pc' = "config_open_write"
               /\ log' = Append(log, InitEvent(status))
               /\ UNCHANGED <<result, fault, child>>
    /\ UNCHANGED <<op, file_contents, keyFile, env, args, tendermint_path,
                   genesis, abortCh, replyRx, branch, stdout>>

\* Command::new(..).args(["init", ..]).output().await, the status check, and
\* the start of write_tm_genesis
InitOutput ==
    /\ pc = "init"
    /\ \E io \in IoResults, status \in ExitStatuses, g \in EngineGenesisDocs :
          IF io = "err"
          THEN /\ Finish(Err("Init", "io"), "init_io", child, log)
               /\ UNCHANGED <<genesisFile, configFile>>
          ELSE IF ~success(status)
          THEN /\ Finish(Panic("Tendermint failed to initialize"),
                         "init_status", child, Append(log, InitEvent(status)))
               /\ UNCHANGED <<genesisFile, configFile>>
          ELSE /\ genesisFile' = InitFile(genesisFile, g)
               /\ configFile' = InitFile(configFile, EngineConfig)
               /\ pc' = "genesis_open"
               /\ log' = Append(log, InitEvent(status))
               /\ UNCHANGED <<result, fault, child>>
    /\ UNCHANGED <<op, file_contents, keyFile, env, args, tendermint_path,
                   genesis, abortCh, replyRx, branch, stdout>>

\* File::open(&path).await in write_tm_genesis
GenesisOpen ==
    /\ pc = "genesis_open"
    /\ \E io \in IoResults :
          IF io = "err"
          THEN Finish(Panic("Couldn't open the genesis file"),
                      "genesis_open", child, log)
          ELSE /\ pc' = "genesis_read"
               /\ UNCHANGED <<result, fault, child, log>>
    /\ UNCHANGED <<op, file_contents, keyFile, env, args, tendermint_path,
                   genesis, genesisFile, configFile, abortCh, replyRx,
                   branch, stdout>>

\* file.read_to_end().await, the deserialization and the overwritten fields
GenesisRead ==
    /\ pc = "genesis_read"
    /\ \E io \in IoResults :
          IF io = "err"
          THEN /\ Finish(Panic("Couldn't read Tendermint genesis file"),
                         "genesis_read", child, log)
               /\ UNCHANGED <<genesis, file_contents>>
          ELSE IF ~TimeConvertible(args.genesis_time)
          THEN /\ Finish(Panic("Couldn't convert DateTimeUtc to Tendermint Time"),
                         "genesis_time", child, log)
               /\ file_contents' = genesisFile
               /\ UNCHANGED genesis
          ELSE /\ file_contents' = genesisFile
               /\ genesis' = PatchGenesis(genesisFile[2], args.chain_id,
                                          args.genesis_time)
               /\ pc' = "genesis_open_write"
               /\ UNCHANGED <<result, fault, child, log>>
    /\ UNCHANGED <<op, keyFile, env, args, tendermint_path, genesisFile,
                   configFile, abortCh, replyRx, branch, stdout>>

\* OpenOptions::new().write(true).truncate(true).open(&path).await and the
\* encoding of the document
GenesisOpenWrite ==
    /\ pc = "genesis_open_write"
    /\ \E io \in IoResults, enc \in IoResults :
          IF io = "err"
          THEN /\ Finish(Panic("Couldn't open the genesis file for writing"),
                         "genesis_open_write", child, log)
               /\ UNCHANGED genesisFile
          ELSE IF enc = "err"
          THEN /\ Finish(Panic("Couldn't encode the CometBFT genesis file"),
                         "genesis_encode", child, Append(log, "genesis_trunc"))
               /\ genesisFile' = Truncated
          ELSE /\ genesisFile' = Truncated
               /\ pc' = "genesis_write"
               /\ log' = Append(log, "genesis_trunc")
               /\ UNCHANGED <<result, fault, child>>
    /\ UNCHANGED <<op, file_contents, keyFile, env, args, tendermint_path,
                   genesis, configFile, abortCh, replyRx, branch, stdout>>

\* GenesisWrite that rewrites the file a second time
GenesisWrite_Again ==
    /\ pc = "genesis_write"
    /\ \E io \in IoResults :
          IF io = "err"
          THEN /\ Finish(Panic("Couldn't write the CometBFT genesis file"),
                         "genesis_write", child, log)
               /\ genesisFile' = Partial
          ELSE /\ genesisFile' = File(genesis)
               /\ pc' = IF \E i \in 1..Len(log) : log[i] = "genesis_write"
                        THEN "config_open_write" ELSE "genesis_open_write"
               /\ log' = Append(log, "genesis_write")
               /\ UNCHANGED <<result, fault, child>>
    /\ UNCHANGED <<op, file_contents, keyFile, env, args, tendermint_path,
                   genesis, configFile, abortCh, replyRx, branch, stdout>>

\* file.write_all(&data[..]).await ends write_tm_genesis; run goes on with
\* update_tendermint_config up to its open().await
GenesisWrite ==
    /\ pc = "genesis_write"
    /\ \E io \in IoResults :
          IF io = "err"
          THEN /\ Finish(Panic("Couldn't write the CometBFT genesis file"),
                         "genesis_write", child, log)
               /\ genesisFile' = Partial
          ELSE /\ genesisFile' = File(genesis)
               /\ pc' = "config_open_write"
               /\ log' = Append(log, "genesis_write")
               /\ UNCHANGED <<result, fault, child>>
    /\ UNCHANGED <<op, file_contents, keyFile, env, args, tendermint_path,
                   genesis, configFile, abortCh, replyRx, branch, stdout>>

\* ConfigOpenWrite that serializes the config before it opens the file
ConfigOpenWrite_SerializeFirst ==
    /\ pc = "config_open_write"
    /\ \E io \in IoResults, ser \in IoResults :
          IF io = "err"
          THEN /\ Finish(Err("OpenWriteConfig", "io"), "config_open_write",
                         child, log)
               /\ UNCHANGED configFile
          ELSE IF ser = "err"
          THEN /\ Finish(Err("ConfigSerializeToml", "ser"), "config_serialize",
                         child, log)
               /\ UNCHANGED configFile
          ELSE /\ configFile' = Truncated
               /\ pc' = "config_write"
               /\ log' = Append(log, "config_trunc")
               /\ UNCHANGED <<result, fault, child>>
    /\ UNCHANGED <<op, file_contents, keyFile, env, args, tendermint_path,
                   genesis, genesisFile, abortCh, replyRx, branch, stdout>>

\* ConfigOpenWrite that reports a failed open as a failed write
ConfigOpenWrite_WrongKind ==
    /\ pc = "config_open_write"
    /\ \E io \in IoResults, ser \in IoResults :
          IF io = "err"
          THEN /\ Finish(Err("WriteConfig", "io"), "config_open_write",
                         child, log)
               /\ UNCHANGED configFile
          ELSE IF ser = "err"
          THEN /\ Finish(Err("ConfigSerializeToml", "ser"), "config_serialize",
                         child, Append(log, "config_trunc"))
               /\ configFile' = Truncated
          ELSE /\ configFile' = Truncated
               /\ pc' = "config_write"
               /\ log' = Append(log, "config_trunc")
               /\ UNCHANGED <<result, fault, child>>
    /\ UNCHANGED <<op, file_contents, keyFile, env, args, tendermint_path,
                   genesis, genesisFile, abortCh, replyRx, branch, stdout>>

\* OpenOptions::new().write(true).truncate(true).open(path).await in
\* update_tendermint_config, then toml::to_string(&config)
ConfigOpenWrite ==
    /\ pc = "config_open_write"
    /\ \E io \in IoResults, ser \in IoResults :
          IF io = "err"
          THEN /\ Finish(Err("OpenWriteConfig", "io"), "config_open_write",
                         child, log)
               /\ UNCHANGED configFile
          ELSE IF ser = "err"
          THEN /\ Finish(Err("ConfigSerializeToml", "ser"), "config_serialize",
                         child, Append(log, "config_trunc"))
               /\ configFile' = Truncated
          ELSE /\ configFile' = Truncated
               /\ pc' = "config_write"
               /\ log' = Append(log, "config_trunc")
               /\ UNCHANGED <<result, fault, child>>
    /\ UNCHANGED <<op, file_contents, keyFile, env, args, tendermint_path,
                   genesis, genesisFile, abortCh, replyRx, branch, stdout>>

\* the process run spawns: Command::new(..).args(["start", ..]),
\* stdout(Stdio::null()) unless log_stdout, kill_on_drop(true), spawn()
SpawnedChild ==
    [state |-> "running", status |-> <<>>, kill_on_drop |-> KillOnDrop,
     stdout_null |-> ~log_stdout(env.NAMADA_CMT_STDOUT), reaped |-> FALSE]

\* ConfigWrite that patches the document `cometbft init` generated
ConfigWrite_FromDisk ==
    /\ pc = "config_write"
    /\ \E io \in IoResults, sp \in IoResults :
          IF io = "err"
          THEN /\ Finish(Err("WriteConfig", "io"), "config_write", child, log)
               /\ configFile' \in {Truncated, Partial}
          ELSE IF sp = "err"
          THEN /\ Finish(Err("StartUp", "io"), "spawn", child,
                         Append(log, "config_write"))
               /\ configFile' = File(PatchConfig(EngineConfig))
          ELSE /\ configFile' = File(PatchConfig(EngineConfig))
               /\ child' = SpawnedChild
               /\ pc' = "select"
               /\ log' = Append(Append2(log, "config_write", "spawn"), "select")
               /\ UNCHANGED <<result, fault>>
    /\ UNCHANGED <<op, file_contents, keyFile, env, args, tendermint_path,
                   genesis, genesisFile, abortCh, replyRx, branch, stdout>>

\* file.write_all(config_str.as_bytes()).await ends update_tendermint_config;
\* run goes on to spawn the node and enters select!
ConfigWrite ==
    /\ pc = "config_write"
    /\ \E io \in IoResults, sp \in IoResults :
          IF io = "err"
          THEN /\ Finish(Err("WriteConfig", "io"), "config_write", child, log)
               /\ configFile' \in {Truncated, Partial}
          ELSE IF sp = "err"
          THEN /\ Finish(Err("StartUp", "io"), "spawn", child,
                         Append(log, "config_write"))
               /\ configFile' = File(PatchConfig(args.config))
          ELSE /\ configFile' = File(PatchConfig(args.config))
               /\ child' = SpawnedChild
               /\ pc' = "select"
               /\ log' = Append(Append2(log, "config_write", "spawn"), "select")
               /\ UNCHANGED <<result, fault>>
    /\ UNCHANGED <<op, file_contents, keyFile, env, args, tendermint_path,
                   genesis, genesisFile, abortCh, replyRx, branch, stdout>>

\* select!: status = tendermint_node.wait() => ...
SelectWait ==
    /\ pc = "select"
    /\ \E io \in IoResults :
          IF io = "err"
          THEN Finish(Err("Runtime", IoErrorToString("wait")), "wait_io",
                      child, log)
          ELSE /\ child.state = "exited"
               /\ Finish(IF success(child.status) THEN Ok(Unit)
                         ELSE Err("Runtime", StatusToString(child.status)),
                         "none", [child EXCEPT !.reaped = TRUE], log)
    /\ branch' = "wait"
    /\ UNCHANGED <<op, file_contents, keyFile, env, args, tendermint_path,
                   genesis, genesisFile, configFile, abortCh, replyRx,
                   stdout>>

\* SelectAbort that sends the reply before it kills the child
SelectAbort_ReplyFirst ==
    /\ pc = "select"
    /\ abortCh \in {"msg", "closed"}
    /\ branch' = IF abortCh = "msg" THEN "abort_msg" ELSE "abort_closed"
    /\ child' = StartKill(child)
    /\ IF abortCh = "msg" /\ replyRx = "alive"
       THEN /\ replyRx' = "replied"
            /\ log' = Append2(log, "reply", "kill")
       ELSE /\ log' = Append(log, "kill")
            /\ UNCHANGED replyRx
    /\ pc' = "kill"
    /\ UNCHANGED <<op, file_contents, keyFile, env, args, tendermint_path,
                   genesis, genesisFile, configFile, abortCh, result, fault,
                   stdout>>

\* select!: resp_sender = abort_recv => ..., up to kill().await
SelectAbort ==
    /\ pc = "select"
    /\ abortCh \in {"msg", "closed"}
    /\ branch' = IF abortCh = "msg" THEN "abort_msg" ELSE "abort_closed"
    /\ child' = StartKill(child)
    /\ log' = Append(log, "kill")
    /\ pc' = "kill"
    /\ UNCHANGED <<op, file_contents, keyFile, env, args, tendermint_path,
                   genesis, genesisFile, configFile, abortCh, replyRx,
                   result, fault, stdout>>

\* oneshot::Sender::send: fails when the receiving end is gone
ReplySend(rx) == IF rx = "alive" THEN "ok" ELSE "err"

\* KillDone that kills again when the kill fails
KillDone_Retry ==
    /\ pc = "kill"
    /\ \E io \in IoResults :
          IF io = "err"
          THEN IF Len(SelectSeq(log, LAMBDA e : e = "kill")) < 2
               THEN /\ log' = Append(log, "kill")
                    /\ UNCHANGED <<pc, result, fault, child, replyRx>>
               ELSE /\ Finish(Panic("called unwrap on an Err value: kill"),
                              "kill_io", child, log)
                    /\ UNCHANGED replyRx
          ELSE IF branch = "abort_msg"
          THEN IF ReplySend(replyRx) = "ok"
               THEN /\ Finish(Ok(Unit), "none",
                              [child EXCEPT !.reaped = TRUE],
                              Append2(log, "killed", "reply"))
                    /\ replyRx' = "replied"
               ELSE /\ Finish(Panic("called unwrap on an Err value: send"),
                              "reply_send", [child EXCEPT !.reaped = TRUE],
                              Append(log, "killed"))
                    /\ UNCHANGED replyRx
          ELSE /\ Finish(Ok(Unit), "none", [child EXCEPT !.reaped = TRUE],
                         Append(log, "killed"))
               /\ UNCHANGED replyRx
    /\ UNCHANGED <<op, file_contents, keyFile, env, args, tendermint_path,
                   genesis, genesisFile, configFile, abortCh, branch,
                   stdout>>

\* tendermint_node.kill().await.unwrap(), then resp_sender.send(()).unwrap()
\* in the Ok arm, then Ok(()).  kill() has signalled the child (StartKill)
\* and awaits its exit; like the wait of select! that await yields an
\* io::Result, and unwrap() panics on Err
KillDone ==
    /\ pc = "kill"
    /\ \E io \in IoResults :
          IF io = "err"
          THEN /\ Finish(Panic("called unwrap on an Err value: kill"),
                         "kill_io", child, log)
               /\ UNCHANGED replyRx
          ELSE IF branch = "abort_msg"
          THEN IF ReplySend(replyRx) = "ok"
               THEN /\ Finish(Ok(Unit), "none",
                              [child EXCEPT !.reaped = TRUE],
                              Append2(log, "killed", "reply"))
                    /\ replyRx' = "replied"
               ELSE /\ Finish(Panic("called unwrap on an Err value: send"),
                              "reply_send", [child EXCEPT !.reaped = TRUE],
                              Append(log, "killed"))
                    /\ UNCHANGED replyRx
          ELSE /\ Finish(Ok(Unit), "none", [child EXCEPT !.reaped = TRUE],
                         Append(log, "killed"))
               /\ UNCHANGED replyRx
    /\ UNCHANGED <<op, file_contents, keyFile, env, args, tendermint_path,
                   genesis, genesisFile, configFile, abortCh, branch,
                   stdout>>

\* the task running run is cancelled at one of its await points
AwaitPoints ==
    { "init", "genesis_open", "genesis_read", "genesis_open_write",
      "genesis_write", "config_open_write", "config_write", "select", "kill" }

DropRun ==
    /\ pc \in AwaitPoints
    /\ Finish(Dropped, "none", child, log)
    /\ UNCHANGED <<op, file_contents, keyFile, env, args, tendermint_path,
                   genesis, genesisFile, configFile, abortCh, replyRx,
                   branch, stdout>>

-----------------------------------------------------------------------------
(* The environment of run                                                  *)

\* the engine process exits on its own
ChildExit ==
    /\ child.state = "running"
    /\ \E status \in ExitStatuses :
          child' = [child EXCEPT !.state = "exited", !.status = status]
    /\ UNCHANGED <<op, file_contents, keyFile, pc, env, args,
                   tendermint_path, genesis, genesisFile, configFile,
                   abortCh, replyRx, branch, result, fault, log, stdout>>

RunLive == pc \in AwaitPoints

\* the holder of the abort sender sends a reply sender through it
SendAbort ==
    /\ RunLive
    /\ abortCh = "open"
    /\ abortCh' = "msg"
    /\ replyRx' = "alive"
    /\ UNCHANGED <<op, file_contents, keyFile, pc, env, args,
                   tendermint_path, genesis, genesisFile, configFile, child,
                   branch, result, fault, log, stdout>>

\* the holder of the abort sender drops it unused
DropAbortSender ==
    /\ RunLive
    /\ abortCh = "open"
    /\ abortCh' = "closed"
    /\ UNCHANGED <<op, file_contents, keyFile, pc, env, args,
                   tendermint_path, genesis, genesisFile, configFile, child,
                   replyRx, branch, result, fault, log, stdout>>

\* the requester gives up waiting and drops the reply receiver
DropReplyReceiver ==
    /\ RunLive
    /\ replyRx = "alive"
    /\ replyRx' = "dropped"
    /\ UNCHANGED <<op, file_contents, keyFile, pc, env, args,
                   tendermint_path, genesis, genesisFile, configFile, child,
                   abortCh, branch, result, fault, log, stdout>>

-----------------------------------------------------------------------------
(* rollback: lines 175-215                                                 *)

\* greatest number of leading zeros a printed height carries
MaxLeadingZeros == 1

\* a u64 is held in three decimal limbs <<a, b, c>> = a*10^14 + b*10^7 + c
LimbBase == 10 ^ 7

\* u64::MAX = 18446744073709551615
U64_MAX == <<184467, 4407370, 9551615>>

Leq(x, y) ==
    \/ x[1] < y[1]
    \/ x[1] = y[1] /\ x[2] < y[2]
    \/ x[1] = y[1] /\ x[2] = y[2] /\ x[3] <= y[3]

None == <<"None">>
Some(v) == <<"Some", v>>

Normalize(a, b, c) ==
    LET b1 == b + c \div LimbBase
    IN  <<a + b1 \div LimbBase, b1 % LimbBase, c % LimbBase>>

\* u64::checked_mul and u64::checked_add
checked_mul(v, k) ==
    LET r == Normalize(v[1] * k, v[2] * k, v[3] * k)
    IN  IF Leq(r, U64_MAX) THEN Some(r) ELSE None

checked_add(v, d) ==
    LET r == Normalize(v[1], v[2], v[3] + d)
    IN  IF Leq(r, U64_MAX) THEN Some(r) ELSE None

DigitChars == <<"0", "1", "2", "3", "4", "5", "6", "7", "8", "9">>

IsDigit(c) == \E i \in 1..10 : DigitChars[i] = c

\* char::to_digit(10) of a decimal digit
to_digit(c) == (CHOOSE i \in 1..10 : DigitChars[i] = c) - 1

ParseIntError(kind) ==
    <<"Err", "ParseIntError",
      CASE kind = "Empty"        -> "cannot parse integer from empty string"
        [] kind = "InvalidDigit" -> "invalid digit found in string"
        [] OTHER                 -> "number too large to fit in target type">>

\* the digit loop of u64::from_str_radix(src, 10)
RECURSIVE parse_digits(_, _, _)
parse_digits(s, i, acc) ==
    IF i > Len(s) THEN Ok(acc)
    ELSE IF ~IsDigit(s[i]) THEN ParseIntError("InvalidDigit")
    ELSE LET mul == checked_mul(acc, 10) IN
         IF mul = None THEN ParseIntError("PosOverflow")
         ELSE LET sum == checked_add(mul[2], to_digit(s[i])) IN
              IF sum = None THEN ParseIntError("PosOverflow")
              ELSE parse_digits(s, i + 1, sum[2])

\* str::parse::<u64>(): a lone sign is an invalid digit, a leading '+' is
\* skipped, a leading '-' is an invalid digit of an unsigned type
parse_u64(s) ==
    IF Len(s) = 0 THEN ParseIntError("Empty")
    ELSE IF Len(s) = 1 /\ s[1] \in {"+", "-"} THEN ParseIntError("InvalidDigit")
    ELSE IF s[1] = "+" THEN parse_digits(s, 2, <<0, 0, 0>>)
    ELSE parse_digits(s, 1, <<0, 0, 0>>)

\* the phrase rollback looks for
RolledBackPhrase ==
    <<"R", "o", "l", "l", "e", "d", " ", "b", "a", "c", "k", " ", "s", "t",
      "a", "t", "e", " ", "t", "o", " ", "h", "e", "i", "g", "h", "t">>

\* str::split_once(pat): around the first occurrence of pat
split_once(s, pat) ==
    LET n == Len(pat)
        starts == { i \in 1..(Len(s) - n + 1) : SubSeq(s, i, i + n - 1) = pat }
    IN  IF starts = {} THEN None
        ELSE LET i == CHOOSE j \in starts : \A k \in starts : j <= k
             IN  Some(<<SubSeq(s, 1, i - 1), SubSeq(s, i + n, Len(s))>>)

\* u8::is_ascii_whitespace: space, tab, line feed, form feed, carriage return
AsciiWhitespace == {" ", "\t", "\n", "\f", "\r"}

\* first_token that splits at single spaces: str::split(' ').next()
first_token_NoSkip(s) ==
    LET sp == { i \in 1..Len(s) : s[i] = " " } IN
    IF sp = {} THEN Some(s)
    ELSE Some(SubSeq(s, 1, (CHOOSE i \in sp : \A k \in sp : i <= k) - 1))

\* str::split_ascii_whitespace().next(): the first maximal run of characters
\* that are not ASCII whitespace
first_token(s) ==
    LET nonws == { i \in 1..Len(s) : s[i] \notin AsciiWhitespace } IN
    IF nonws = {} THEN None
    ELSE LET b == CHOOSE i \in nonws : \A k \in nonws : i <= k
             ends == { i \in b..Len(s) :
                          /\ \A k \in b..i : s[k] \notin AsciiWhitespace
                          /\ (i = Len(s) \/ s[i + 1] \in AsciiWhitespace) }
             e == CHOOSE i \in ends : TRUE
         IN  Some(SubSeq(s, b, e))

\* a byte that cannot occur in UTF-8
InvalidByte == "0xFF"

\* String::from_utf8(output.stdout)
from_utf8(bytes) ==
    IF \E i \in 1..Len(bytes) : bytes[i] = InvalidByte
    THEN <<"Err", "FromUtf8Error", "invalid utf-8 sequence">>
    ELSE Ok(bytes)

MissingHeight == "Missing expected block height in tendermint stdout message"

\* rollback from the captured stdout on: lines 196-214
parse_rollback_output(bytes) ==
    LET output_msg == from_utf8(bytes) IN
    IF ~IsOk(output_msg) THEN Err("RollBack", output_msg[3])
    ELSE LET split == split_once(output_msg[2], RolledBackPhrase) IN
    IF split = None THEN Err("RollBack", MissingHeight)
    ELSE LET height == first_token(split[2][2]) IN
    IF height = None THEN Err("RollBack", MissingHeight)
    ELSE LET parsed == parse_u64(height[2]) IN
    IF ~IsOk(parsed) THEN Err("RollBack", parsed[3])
    ELSE Ok(parsed[2])

(* What the engine prints: "Rolled back state to height %d and hash %v"    *)

RECURSIVE Digits(_)
Digits(n) ==
    IF n < 10 THEN <<DigitChars[n + 1]>>
    ELSE Digits(n \div 10) \o <<DigitChars[(n % 10) + 1]>>

RECURSIVE Padded(_, _)
Padded(n, w) ==
    IF w = 0 THEN <<>>
    ELSE Padded(n \div 10, w - 1) \o <<DigitChars[(n % 10) + 1]>>

\* %d of a height held in limbs
FormatDecimal(v) ==
    IF v[1] > 0 THEN Digits(v[1]) \o Padded(v[2], 7) \o Padded(v[3], 7)
    ELSE IF v[2] > 0 THEN Digits(v[2]) \o Padded(v[3], 7)
    ELSE Digits(v[3])

RECURSIVE Zeros(_)
Zeros(n) == IF n = 0 THEN <<>> ELSE <<"0">> \o Zeros(n - 1)

\* heights up to u64::MAX, and 2^64
U64Heights ==
    { <<0, 0, 0>>, <<0, 0, 7>>, <<0, 1, 0>>, <<0, 12, 3456789>>, U64_MAX }

Heights == U64Heights \cup { <<184467, 4407370, 9551616>> }

\* text in front of the phrase: none, a log line, bytes that are not UTF-8,
\* an earlier occurrence of the phrase
PlainPrefixes ==
    { <<>>,
      <<"I", "[", "2", "0", "2", "3", "-", "0", "1", "-", "0", "1", "]", " ">> }

Prefixes ==
    PlainPrefixes
    \cup { <<InvalidByte, "\n">>,
           RolledBackPhrase \o <<" ", "p", "e", "n", "d", "i", "n", "g", "\n">> }

\* whitespace between the phrase and the height; U+00A0 is whitespace that
\* is not ASCII
AsciiSeparators == { <<" ">>, <<>>, <<"\n", "\t">> }

Separators == AsciiSeparators \cup { <<"U+00A0">> }

Suffixes ==
    { <<>>,
      <<" ", "a", "n", "d", " ", "h", "a", "s", "h", " ", "A", "1", "B", "2",
        "\n">> }

\* the engine's messages: a height after the phrase, and messages without
\* the phrase, without a token, with a token that is not a number
Messages ==
    [pre : Prefixes, said : {TRUE}, sep : Separators, num : {TRUE},
     zeros : 0..MaxLeadingZeros, height : Heights, raw : {<<>>},
     post : Suffixes]
    \cup
    [pre : PlainPrefixes, said : BOOLEAN, sep : {<<" ">>}, num : {FALSE},
     zeros : {0}, height : {<<0, 0, 0>>},
     raw : { <<>>, <<"x", "1">>, <<"+", "7">>, <<"-", "1">>, <<"+">> },
     post : {<<>>, <<"\n">>}]

Token(m) ==
    IF m.num THEN Zeros(m.zeros) \o FormatDecimal(m.height) ELSE m.raw

Text(m) ==
    m.pre \o (IF m.said THEN RolledBackPhrase ELSE <<>>) \o m.sep
          \o Token(m) \o m.post

\* pub fn rollback: the engine's exit status is not looked at
Rollback ==
    /\ pc = "idle"
    /\ op' = "rollback"
    /\ LET p == from_env_or_default(env.COMETBFT) IN
       IF ~IsOk(p)
       THEN /\ Finish(p, "env", child, log)
            /\ UNCHANGED <<tendermint_path, stdout>>
       ELSE /\ tendermint_path' = p[2]
            /\ \E io \in IoResults, m \in Messages :
                  IF io = "err"
                  THEN /\ Finish(Err("RollBack", IoErrorToString("output")),
                                 "rollback_io", child, log)
                       /\ UNCHANGED stdout
                  ELSE /\ stdout' = [msg |-> m, bytes |-> Text(m)]
                       /\ Finish(parse_rollback_output(Text(m)), "none",
                                 child, Append(log, "rollback"))
    /\ UNCHANGED <<env, args, file_contents, keyFile, genesis, genesisFile,
                   configFile, abortCh, replyRx, branch>>

-----------------------------------------------------------------------------
(* write_validator_key                                                     *)

\* the bytes of a key: n bytes drawn from a seed
KeyBytes(n, seed) == [i \in 1..n |-> (i * seed + 7) % 256]

\* common::SecretKey values of both schemes, each with the public key that
\* ref_to() gives for it; sk and pk are what serialize_to_vec() returns
SecretKeys ==
    { [scheme |-> "Ed25519", sk |-> KeyBytes(32, s), pk |-> KeyBytes(32, s + 64)]
        : s \in {3, 250} }
    \cup
    { [scheme |-> "Secp256k1", sk |-> KeyBytes(32, s),
       pk |-> <<2>> \o KeyBytes(32, s + 64)] : s \in {5, 177} }

\* sk.ref_to()
ref_to(key) == [scheme |-> key.scheme, bytes |-> key.pk]

\* tm_consensus_key_raw_hash(&pk): a digest of the public key
tm_consensus_key_raw_hash(pk) == <<"raw_hash", pk.scheme, pk.bytes>>

Base64Alphabet ==
    <<
       "A", "B", "C", "D", "E", "F", "G", "H", "I", "J", "K", "L", "M", "N", "O", "P",
       "Q", "R", "S", "T", "U", "V", "W", "X", "Y", "Z", "a", "b", "c", "d", "e", "f",
       "g", "h", "i", "j", "k", "l", "m", "n", "o", "p", "q", "r", "s", "t", "u", "v",
       "w", "x", "y", "z", "0", "1", "2", "3", "4", "5", "6", "7", "8", "9", "+", "/"
    >>

\* base64::encode: three bytes give four characters, the last group is
\* padded with "="
RECURSIVE base64_encode(_)
base64_encode(b) ==
    LET A(i) == Base64Alphabet[i + 1] IN
    IF Len(b) = 0 THEN <<>>
    ELSE IF Len(b) = 1
    THEN <<A(b[1] \div 4), A((b[1] % 4) * 16), "=", "=">>
    ELSE IF Len(b) = 2
    THEN <<A(b[1] \div 4), A((b[1] % 4) * 16 + b[2] \div 16),
           A((b[2] % 16) * 4), "=">>
    ELSE <<A(b[1] \div 4), A((b[1] % 4) * 16 + b[2] \div 16),
           A((b[2] % 16) * 4 + b[3] \div 64), A(b[3] % 64)>>
         \o base64_encode(SubSeq(b, 4, Len(b)))

\* validator_key_to_json whose Ed25519 priv_key holds the private bytes alone
validator_key_to_json_PrivateOnly(key) ==
    [address |-> tm_consensus_key_raw_hash(ref_to(key)),
     pub_key |-> [type |-> "tendermint/PubKey" \o key.scheme,
                  value |-> base64_encode(ref_to(key).bytes)],
     priv_key |-> [type |-> "tendermint/PrivKey" \o key.scheme,
                   value |-> base64_encode(key.sk)]]

\* fn validator_key_to_json(sk)
validator_key_to_json(key) ==
    LET raw_hash == tm_consensus_key_raw_hash(ref_to(key))
        id_str == IF key.scheme = "Ed25519" THEN "Ed25519" ELSE "Secp256k1"
        pk_arr == ref_to(key).bytes
        kp_arr == IF key.scheme = "Ed25519"
                  THEN key.sk \o ref_to(key).bytes
                  ELSE key.sk
    IN [address |-> raw_hash,
        pub_key |-> [type |-> "tendermint/PubKey" \o id_str,
                     value |-> base64_encode(pk_arr)],
        priv_key |-> [type |-> "tendermint/PrivKey" \o id_str,
                      value |-> base64_encode(kp_arr)]]

\* pub fn write_validator_key: every failure is an expect() panic
WriteValidatorKey ==
    /\ pc = "idle"
    /\ op' = "write_validator_key"
    /\ \E key \in SecretKeys, dir \in IoResults, open \in IoResults,
          wr \in IoResults, left \in {Truncated, Partial} :
          /\ args' = [consensus_key |-> key]
          /\ IF dir = "err"
             THEN /\ Finish(Panic("Couldn't create private validator key directory"),
                            "key_dir", child, log)
                  /\ UNCHANGED keyFile
             ELSE IF open = "err"
             THEN /\ Finish(Panic("Couldn't create private validator key file"),
                            "key_open", child, log)
                  /\ UNCHANGED keyFile
             ELSE IF wr = "err"
             THEN /\ Finish(Panic("Couldn't write private validator key file"),
                            "key_write", child, Append(log, "key_trunc"))
                  /\ keyFile' = left
             ELSE /\ Finish(Ok(Unit), "none", child,
                            Append2(log, "key_trunc", "key_write"))
                  /\ keyFile' = File(validator_key_to_json(key))
    /\ UNCHANGED <<env, tendermint_path, file_contents, genesis, genesisFile,
                   configFile, abortCh, replyRx, branch, stdout>>

-----------------------------------------------------------------------------
(* reset                                                                   *)

\* what the reset-state subcommand did: it exited with status 0, or not
ResetEvent(status) ==
    IF status = <<"exit", 0>> THEN "reset_state" ELSE "reset_state_failed"

\* what a failed remove_dir_all can leave of a file in the directory
Leftover(file) == {file, Absent}

\* pub fn reset: output().expect(..) panics when the command cannot be run
\* and output.status is not looked at; remove_dir_all(..).expect(..)
Reset ==
    /\ pc = "idle"
    /\ op' = "reset"
    /\ LET p == from_env_or_default(env.COMETBFT) IN
       IF ~IsOk(p)
       THEN /\ Finish(p, "env", child, log)
            /\ UNCHANGED <<tendermint_path, genesisFile, configFile, keyFile>>
       ELSE /\ tendermint_path' = p[2]
            /\ \E out \in IoResults, status \in ExitStatuses,
                  rm \in IoResults :
                  IF out = "err"
                  THEN /\ Finish(Panic("Failed to reset tendermint node's data"),
                                 "reset_io", child, log)
                       /\ UNCHANGED <<genesisFile, configFile, keyFile>>
                  ELSE IF rm = "err"
                  THEN /\ Finish(Panic("Failed to reset tendermint node's config"),
                                 "remove_config", child,
                                 Append(log, ResetEvent(status)))
                       /\ genesisFile' \in Leftover(genesisFile)
                       /\ configFile' \in Leftover(configFile)
                       /\ keyFile' \in Leftover(keyFile)
                  ELSE /\ Finish(Ok(Unit), "none", child,
                                 Append2(log, ResetEvent(status),
                                         "remove_config"))
                       /\ genesisFile' = Absent
                       /\ configFile' = Absent
                       /\ keyFile' = Absent
    /\ UNCHANGED <<env, args, file_contents, genesis, abortCh, replyRx,
                   branch, stdout>>

-----------------------------------------------------------------------------
Next ==
    \/ RunStart
    \/ InitOutput
    \/ GenesisOpen
    \/ GenesisRead
    \/ GenesisOpenWrite
    \/ GenesisWrite
    \/ ConfigOpenWrite
    \/ ConfigWrite
    \/ SelectWait
    \/ SelectAbort
    \/ KillDone
    \/ DropRun
    \/ ChildExit
    \/ SendAbort
    \/ DropAbortSender
    \/ DropReplyReceiver
    \/ Rollback
    \/ WriteValidatorKey
    \/ Reset

Spec == Init /\ [][Next]_vars

-----------------------------------------------------------------------------
(* Properties                                                              *)

Has(e) == \E i \in 1..Len(log) : log[i] = e
Count(e) == Cardinality({ i \in 1..Len(log) : log[i] = e })
First(e) == CHOOSE i \in 1..Len(log) : log[i] = e /\ \A j \in 1..(i - 1) : log[j] # e
Last(e) == CHOOSE i \in 1..Len(log) : log[i] = e /\ \A j \in (i + 1)..Len(log) : log[j] # e
Before(a, b) == Has(a) /\ Has(b) /\ Last(a) < First(b)

RunEnded == op = "run" /\ pc = "done"

\* C1: in every execution of run the engine init completes before the
\* genesis patch, the genesis patch completes before the config patch, the
\* config patch completes before the start process is spawned, and the
\* supervisor waits on child exit or abort only after the spawn; the start
\* process never exists while a patch is pending.
C1_StartupOrder ==
    /\ Has("genesis_trunc") => Before("init", "genesis_trunc")
    /\ Has("config_trunc") => Before("genesis_write", "config_trunc")
    /\ Has("spawn") =>
          Before("genesis_write", "spawn") /\ Before("config_write", "spawn")
    /\ Has("select") => Before("spawn", "select")
    /\ child.state # "none" =>
          /\ Has("spawn")
          /\ genesisFile[1] = "doc" /\ configFile[1] = "doc"
          /\ pc \in {"select", "kill", "done"}
    /\ pc \in {"select", "kill"} => child.state # "none"

C1_Racing ==
    /\ pc = "select"
    /\ child.state = "running"
    /\ log = <<"init", "genesis_trunc", "genesis_write", "config_trunc",
               "config_write", "spawn", "select">>

\* C2: when run takes an abort message while the child is running, run
\* kills the child, sends exactly one acknowledgment on the reply path and
\* returns success, whatever the requester does with its end of the path.
\* Stated for the executions in which the kill has completed.
C2_AbortAcknowledged ==
    (RunEnded /\ branch = "abort_msg" /\ child.state = "killed"
              /\ Has("killed") /\ result # Dropped)
    => /\ Count("reply") = 1
       /\ result = Ok(Unit)

\* C3: an acknowledgment is sent on the reply path only after the kill of
\* the child has been issued and has completed; the reply is never sent
\* while the child is still running.
C3_ReplyAfterKill ==
    /\ Has("reply") =>
          /\ Has("kill") /\ Has("killed")
          /\ First("kill") < First("killed")
          /\ Last("killed") < First("reply")
          /\ child.state \in {"killed", "exited"}
    /\ replyRx = "replied" => Has("reply")

C3_Replied == replyRx = "replied" /\ child.state = "killed" /\ pc = "done"

\* C4: when the abort sender is dropped unused while the child is running,
\* run kills the child and returns success, and no reply is ever sent.
C4_SenderDropped ==
    (RunEnded /\ branch = "abort_closed" /\ child.state = "killed"
              /\ result # Dropped)
    => /\ Has("kill")
       /\ ~Has("reply")
       /\ result = Ok(Unit)

\* C5: when the child's termination resolves the race, run returns success
\* exactly when the exit status is successful; for any other status it
\* returns Runtime with the status text, and when the wait itself fails it
\* returns Runtime with the text of the wait error.
C5_ExitStatusPropagated ==
    (RunEnded /\ branch = "wait")
    => /\ IsOk(result) <=> (fault # "wait_io" /\ child.status = <<"exit", 0>>)
       /\ fault = "wait_io" => result = Err("Runtime", "io error: wait")
       /\ (fault # "wait_io" /\ child.status = <<"exit", 1>>)
             => result = Err("Runtime", "exit status: 1")
       /\ (fault # "wait_io" /\ child.status = <<"signal", 9>>)
             => result = Err("Runtime", "signal: 9")

C5_FailedExit ==
    /\ RunEnded /\ branch = "wait"
    /\ child.status = <<"exit", 1>>
    /\ result = Err("Runtime", "exit status: 1")

\* C6: whenever run has ended (it returned success or an error, panicked,
\* or its task was dropped) the spawned start process is not running.
C6_NoOrphan == RunEnded => child.state # "running"

C6_DroppedWhileRacing ==
    /\ RunEnded /\ result = Dropped
    /\ branch = "none" /\ Has("select")
    /\ child.state = "killed"

\* C7: when the init subcommand exits with a non-zero status run panics; it
\* returns neither success nor an error, patches neither document and does
\* not spawn the start process.
C7_InitFailureIsFatal ==
    Has("init_failed")
    => /\ pc = "done" /\ result[1] = "panic"
       /\ \A e \in {"genesis_trunc", "genesis_write", "config_trunc",
                    "config_write", "spawn", "select"} : ~Has(e)
       /\ child.state = "none"

C7_InitFailed == Has("init_failed") /\ fault = "init_status" /\ pc = "done"

\* C8: when run has spawned the start process, it has rewritten genesis.json
\* once and config.toml once, both before the spawn, and from the spawn on
\* both files hold what those rewrites put there.
C8_PatchedOnce ==
    Has("spawn")
    => /\ \A e \in {"genesis_trunc", "genesis_write", "config_trunc",
                    "config_write"} : Count(e) = 1 /\ Before(e, "spawn")
       /\ Count("spawn") = 1
       /\ genesisFile = File(genesis)
       /\ genesis.chain_id = args.chain_id
       /\ configFile = File(PatchConfig(args.config))

C8_EngineRan == Has("spawn") /\ child.state = "exited" /\ pc = "done"

\* C9: each startup failure has its own error kind (init cannot be invoked:
\* Init; config.toml cannot be opened: OpenWriteConfig; the config cannot be
\* serialized: ConfigSerializeToml; it cannot be written: WriteConfig; start
\* cannot be spawned: StartUp), and in each case the start process never
\* runs, no kill is issued and no reply is sent.
StartupFaults ==
    { <<"init_io", "Init">>, <<"config_open_write", "OpenWriteConfig">>,
      <<"config_serialize", "ConfigSerializeToml">>,
      <<"config_write", "WriteConfig">>, <<"spawn", "StartUp">> }

C9_StartupErrors ==
    op = "run" =>
    \A f \in StartupFaults :
       /\ fault = f[1] <=> IsErr(result, f[2])
       /\ fault = f[1] =>
             /\ pc = "done"
             /\ child.state = "none"
             /\ \A e \in {"spawn", "select", "kill", "killed", "reply"} : ~Has(e)
             /\ replyRx # "replied"

C9_SpawnFailed ==
    /\ op = "run" /\ fault = "spawn" /\ IsErr(result, "StartUp")
    /\ Has("config_write")

\* C10 as stated, read for stdout that is valid UTF-8 and for ASCII
\* whitespace: whenever the text has the phrase followed by whitespace and a
\* token that is the decimal integer N, rollback returns N, whatever
\* precedes the phrase and whatever follows the token.
C10_AnyText ==
    (/\ op = "rollback" /\ Has("rollback")
     /\ stdout.msg.said /\ stdout.msg.num
     /\ \A i \in 1..Len(stdout.bytes) : stdout.bytes[i] # InvalidByte
     /\ stdout.msg.sep \in AsciiSeparators)
    => result = Ok(stdout.msg.height)

\* C10: for every stdout that is valid UTF-8 and in which the first
\* occurrence of the phrase is followed by ASCII whitespace (or nothing) and
\* a token, ended by ASCII whitespace or the end of the text, that is the
\* decimal integer N <= u64::MAX, with or without leading zeros, rollback
\* returns N; the text before that occurrence and the tokens after N do not
\* change the result.
C10_FirstOccurrence ==
    (/\ op = "rollback" /\ Has("rollback")
     /\ stdout.msg.said /\ stdout.msg.num
     /\ stdout.msg.pre \in PlainPrefixes
     /\ stdout.msg.sep \in AsciiSeparators
     /\ stdout.msg.height \in U64Heights)
    => result = Ok(stdout.msg.height)

C10_Parsed ==
    /\ op = "rollback" /\ Has("rollback")
    /\ stdout.msg.said /\ stdout.msg.num
    /\ Len(stdout.msg.pre) > 0 /\ stdout.msg.pre \in PlainPrefixes
    /\ stdout.msg.zeros = 1 /\ Len(stdout.msg.post) > 0
    /\ stdout.msg.height = U64_MAX
    /\ result = Ok(U64_MAX)

\* the way a stdout text fails to give a height: it lacks the phrase, it has
\* the phrase with no token after it, or the token is not a decimal integer
FailureMode(m) ==
    IF ~m.said THEN "phrase_not_found"
    ELSE IF Token(m) = <<>> THEN "missing_token"
    ELSE IF m.num \/ m.raw = <<"+", "7">> THEN "none"
    ELSE "unparseable"

FailedTexts == {m \in Messages : ~m.num /\ FailureMode(m) # "none"}

\* C11: a stdout without the phrase, a stdout with the phrase and no token,
\* and a stdout whose token is not a number each make rollback return a
\* RollBack error, and the error values of two different failure modes are
\* never the same value.
C11_DistinctFailures ==
    (/\ op = "rollback" /\ Has("rollback")
     /\ stdout.msg \in FailedTexts)
    => /\ IsErr(result, "RollBack")
       /\ \A m \in FailedTexts :
             FailureMode(m) # FailureMode(stdout.msg)
             => parse_rollback_output(Text(m)) # result

InitGenerated ==
    /\ Has("init")
    /\ file_contents \in {File(g) : g \in EngineGenesisDocs}

C14_GenesisFrame ==
    Has("genesis_write")
    => /\ genesisFile[1] = "doc" /\ file_contents[1] = "doc"
       /\ genesisFile[2].chain_id = args.chain_id
       /\ genesisFile[2].genesis_time = args.genesis_time
       /\ genesisFile[2].block.max_bytes = 16777216
       /\ genesisFile[2].block.max_gas = -1
       /\ genesisFile[2].block.time_iota_ms = 1000
       /\ genesisFile[2].app_state = file_contents[2].app_state
       /\ genesisFile[2].other = file_contents[2].other

C14_GenesisPatched ==
    /\ Has("genesis_write")
    /\ file_contents[2].block.max_gas = 1000
    /\ file_contents[2].block.max_bytes = 22020096
    /\ file_contents[2].chain_id # args.chain_id
    /\ genesisFile[2].other = "engine"

Base64Value(c) == CHOOSE i \in 0..63 : Base64Alphabet[i + 1] = c

\* the bytes a base64 text stands for
RECURSIVE base64_decode(_)
base64_decode(t) ==
    IF Len(t) < 4 THEN <<>>
    ELSE LET v(i) == Base64Value(t[i])
             b1 == v(1) * 4 + v(2) \div 16
         IN IF t[3] = "=" THEN <<b1>>
            ELSE IF t[4] = "="
            THEN <<b1, (v(2) % 16) * 16 + v(3) \div 4>>
            ELSE <<b1, (v(2) % 16) * 16 + v(3) \div 4, (v(3) % 4) * 64 + v(4)>>
                 \o base64_decode(SubSeq(t, 5, Len(t)))

\* C15: the key document written for a signing key has the type tags
\* "tendermint/PubKey<Scheme>" and "tendermint/PrivKey<Scheme>" of the key's
\* own scheme, a pub_key value that is the base64 text of the public bytes,
\* a priv_key value that is the base64 text of the private bytes followed by
\* the public bytes for Ed25519 and of the private bytes alone for
\* Secp256k1, and the address derived from the key's public key.
C15_KeyDocument ==
    (op = "write_validator_key" /\ Has("key_write"))
    => LET key == args.consensus_key
           doc == keyFile[2]
           priv == base64_decode(doc.priv_key.value)
       IN /\ keyFile[1] = "doc"
          /\ key.scheme \in {"Ed25519", "Secp256k1"}
          /\ key.scheme = "Ed25519"
             => /\ doc.pub_key.type = "tendermint/PubKeyEd25519"
                /\ doc.priv_key.type = "tendermint/PrivKeyEd25519"
                /\ priv = key.sk \o key.pk
                /\ Len(priv) = Len(key.sk) + Len(key.pk)
          /\ key.scheme = "Secp256k1"
             => /\ doc.pub_key.type = "tendermint/PubKeySecp256k1"
                /\ doc.priv_key.type = "tendermint/PrivKeySecp256k1"
                /\ priv = key.sk
          /\ base64_decode(doc.pub_key.value) = key.pk
          /\ doc.address = <<"raw_hash", key.scheme, key.pk>>

C15_Ed25519Written ==
    /\ op = "write_validator_key" /\ Has("key_write")
    /\ args.consensus_key.scheme = "Ed25519"
    /\ Len(keyFile[2].priv_key.value) = 88
    /\ Len(keyFile[2].pub_key.value) = 44

\* C16: reset runs the reset-state command before it deletes <home>/config,
\* and it returns success only if the command ran and exited successfully
\* and the config subtree was deleted.
C16_ResetFatal ==
    (op = "reset" /\ pc = "done")
    => /\ Has("remove_config")
          => \E i \in 1..Len(log) :
                /\ log[i] \in {"reset_state", "reset_state_failed"}
                /\ i < First("remove_config")
       /\ result = Ok(Unit)
          => /\ Has("reset_state") /\ ~Has("reset_state_failed")
             /\ Has("remove_config")
             /\ genesisFile = Absent /\ configFile = Absent

\* C17: run, reset and rollback take the engine path from COMETBFT. When
\* the variable holds a value that is not valid text the operation returns
\* the TendermintPath error with that value, having invoked no engine
\* subcommand, spawned no child and left every file as it was; when the
\* variable is unset the path is "cometbft"; otherwise it is the value.
C17_EnginePath ==
    (op \in {"run", "reset", "rollback"})
    => /\ env.COMETBFT[1] = "NotUnicode"
          => /\ pc = "done"
             /\ result = <<"Err", "TendermintPath", env.COMETBFT[2]>>
             /\ log = <<>>
             /\ child = NoChild
             /\ <<genesisFile, configFile>> \in Homes
             /\ keyFile = Absent
       /\ env.COMETBFT[1] = "NotPresent" => tendermint_path = "cometbft"
       /\ env.COMETBFT[1] = "Ok" => tendermint_path = env.COMETBFT[2]

C17_PathRejected ==
    /\ op = "reset" /\ pc = "done"
    /\ env.COMETBFT[1] = "NotUnicode"
    /\ result = <<"Err", "TendermintPath", "0xFF">>
    /\ configFile # Absent

\* C18: the race in run has one resolution. When the child's exit resolves
\* it, run has issued no kill and sent no reply, whenever an abort message
\* was sent; when the abort resolves it, run returns success whatever the
\* child's exit status is; run never both reports the child's exit status
\* and sends a reply.
C18_OneResolution ==
    (RunEnded /\ branch # "none" /\ result # Dropped)
    => /\ branch = "wait"
          => /\ ~Has("kill") /\ ~Has("killed")
             /\ ~Has("reply") /\ replyRx # "replied"
       /\ branch \in {"abort_msg", "abort_closed"}
          => /\ result = Ok(Unit)
             /\ Has("kill")

\* C19: nothing is retried. In every state of every execution, failure
\* paths included, the init subcommand has been invoked at most once, the
\* node spawned at most once, each document truncated and written at most
\* once, the child killed at most once, and the reset-state and rollback
\* subcommands invoked at most once.
C19_NoRetry ==
    /\ Count("init") + Count("init_failed") <= 1
    /\ Count("genesis_trunc") <= 1 /\ Count("genesis_write") <= 1
    /\ Count("config_trunc") <= 1 /\ Count("config_write") <= 1
    /\ Count("spawn") <= 1
    /\ Count("kill") <= 1 /\ Count("killed") <= 1
    /\ Count("reset_state") + Count("reset_state_failed") <= 1
    /\ Count("remove_config") <= 1
    /\ Count("rollback") <= 1

C19_KillFailed ==
    /\ RunEnded /\ fault = "kill_io"
    /\ Count("init") = 1 /\ Count("genesis_write") = 1
    /\ Count("config_write") = 1 /\ Count("spawn") = 1
    /\ Count("kill") = 1

\* C20: a config patch that fails with OpenWriteConfig leaves config.toml
\* with the content it had; one that fails with ConfigSerializeToml leaves
\* it empty, and one that fails with WriteConfig leaves it empty or
\* partially written.
C20_FailedPatch ==
    (RunEnded /\ result[1] = "Err")
    => /\ result[2] = "OpenWriteConfig"
          => /\ configFile[1] = "doc"
             /\ InitGenerated => configFile = <<"doc", EngineConfig>>
       /\ result[2] = "ConfigSerializeToml" => configFile = <<"empty">>
       /\ result[2] = "WriteConfig"
          => configFile \in {<<"empty">>, <<"partial">>}

C20_SerializeFailed ==
    /\ RunEnded
    /\ result = <<"Err", "ConfigSerializeToml", "ser">>
    /\ Has("genesis_write")
    /\ configFile = <<"empty">>
====
